---- MODULE Spec2Model ----
(***************************************************************************)
(* OAuth 2.0 authorization-server core of the "auto-auth" feature          *)
(* (src/back-auth/features/auto-auth): PKCE validation, authorization      *)
(* codes, RSA signing keys, JWT issuance / validation / revocation.        *)
(*                                                                         *)
(* The stores are Cassandra tables; every session.execute(...) of the      *)
(* infrastructure layer is one atomic store operation, and a handler that  *)
(* performs a read followed by a write is split at that boundary so that   *)
(* several server processes can interleave.                                *)
(*                                                                         *)
(* Strings that the code inspects (verifier, challenge) are sequences of   *)
(* byte values (ASCII codes); Python's None for such a string is the       *)
(* sequence <<-1>>, which no string equals.  Times are integer seconds     *)
(* (UTC).                                                                  *)
(***************************************************************************)
EXTENDS Integers, Sequences, FiniteSets, TLC

\* ------------------------------------------------------------------ bounds
MaxVerifierLen == 2
MaxCodes == 1
MaxTicks == 2
MaxKeyPairs == 2
MaxGrants == 1
MaxRefreshes == 1

\* ------------------------------------------------------- strings and None
None == <<-1>>

RECURSIVE Pow(_, _)
Pow(b, k) == IF k = 0 THEN 1 ELSE b * Pow(b, k - 1)

\* str(user_id)
Str(x) == << "str", x >>

\* A string of scopes is a sequence of characters, each either the
\* whitespace " " or a run of other characters (such as "profile"); a scope
\* list is a sequence of such strings.
\* " ".join(scope)
RECURSIVE Join(_)
Join(list) ==
  IF Len(list) = 0 THEN << >>
  ELSE IF Len(list) = 1 THEN list[1]
  ELSE list[1] \o << " " >> \o Join(Tail(list))

\* str.split(): the maximal runs without whitespace, word being the run read
\* so far.
RECURSIVE SplitFrom(_, _)
SplitFrom(string, word) ==
  IF string = << >> THEN (IF word = << >> THEN << >> ELSE << word >>)
  ELSE IF Head(string) = " "
    THEN (IF word = << >> THEN << >> ELSE << word >>) \o SplitFrom(Tail(string), << >>)
  ELSE SplitFrom(Tail(string), Append(word, Head(string)))

Split(string) == SplitFrom(string, << >>)
ToSet(list) == {list[i] : i \in 1..Len(list)}

\* ------------------------------------------------------------------ PKCE
\* hashlib.sha256(...).digest(): a fixed-length digest.  The stand-in is
\* collision-free on the bounded inputs (bytes below 128, length at most 4)
\* and five bytes long, so that, like the 32-byte SHA-256 digest, its length
\* is 2 modulo 3 and its base64 form carries exactly one "=" of padding.
RECURSIVE HashFold(_, _)
HashFold(h, s) == IF s = <<>> THEN h ELSE HashFold(h * 129 + Head(s) + 1, Tail(s))

Sha256(bytes) ==
  LET h == HashFold(0, bytes)
  IN  << 0, (h \div 16777216) % 256, (h \div 65536) % 256, (h \div 256) % 256, h % 256 >>

\* The URL-safe base64 alphabet (A-Z a-z 0-9 - _) as ASCII codes.
UrlSafeChar(i) ==
  IF i < 26 THEN 65 + i
  ELSE IF i < 52 THEN 97 + (i - 26)
  ELSE IF i < 62 THEN 48 + (i - 52)
  ELSE IF i = 62 THEN 45
  ELSE 95

\* base64.urlsafe_b64encode: groups of three bytes become four characters;
\* a last group of one or two bytes is padded with "=" (61).
RECURSIVE urlsafe_b64encode(_)
urlsafe_b64encode(bytes) ==
  IF Len(bytes) = 0 THEN <<>>
  ELSE IF Len(bytes) = 1 THEN
    << UrlSafeChar(bytes[1] \div 4), UrlSafeChar((bytes[1] % 4) * 16), 61, 61 >>
  ELSE IF Len(bytes) = 2 THEN
    << UrlSafeChar(bytes[1] \div 4),
       UrlSafeChar((bytes[1] % 4) * 16 + bytes[2] \div 16),
       UrlSafeChar((bytes[2] % 16) * 4), 61 >>
  ELSE
    << UrlSafeChar(bytes[1] \div 4),
       UrlSafeChar((bytes[1] % 4) * 16 + bytes[2] \div 16),
       UrlSafeChar((bytes[2] % 16) * 4 + bytes[3] \div 64),
       UrlSafeChar(bytes[3] % 64) >>
    \o urlsafe_b64encode(SubSeq(bytes, 4, Len(bytes)))

\* str.rstrip("="): drops every trailing "=".
RECURSIVE rstrip_eq(_)
rstrip_eq(s) ==
  IF s # <<>> /\ s[Len(s)] = 61 THEN rstrip_eq(SubSeq(s, 1, Len(s) - 1)) ELSE s

\* OAuthDomain.validate_pkce, with the padding left on the computed challenge
validate_pkce_padded(code_verifier, code_challenge, code_challenge_method) ==
  IF code_challenge_method = "S256"
    THEN urlsafe_b64encode(Sha256(code_verifier)) = code_challenge
  ELSE IF code_challenge_method = "plain"
    THEN code_verifier = code_challenge
  ELSE FALSE

\* OAuthDomain.validate_pkce
validate_pkce(code_verifier, code_challenge, code_challenge_method) ==
  IF code_challenge_method = "S256"
    THEN LET hashed == Sha256(code_verifier)
             computed_challenge == rstrip_eq(urlsafe_b64encode(hashed))
         IN  computed_challenge = code_challenge
  ELSE IF code_challenge_method = "plain"
    THEN code_verifier = code_challenge
  ELSE FALSE

\* ------------------------------------------------------------ input sets
Procs == {"p1", "p2"}
Users == {42}
Clients == {"c1", "c2"}
RedirectUris == {"https://app/cb", "https://evil/cb"}
ScopeStrings == {Join(<< << "profile" >>, << "email" >> >>)}
VerifierBytes == {97, 98}
Verifiers == UNION {[1..n -> VerifierBytes] : n \in 0..MaxVerifierLen}

\* 1..MaxCodes stand for the values of secrets.token_urlsafe(32)
CodeIds == 1..MaxCodes

VARIABLES
  now,          \* datetime.utcnow(), in seconds
  ticks,        \* how often time has advanced
  codes,        \* auth_events.oauth_authorization_codes
  cpc, creq, cac,   \* validate_authorization_code in each process: position,
                    \* arguments, the row it read (auth_code)
  redeemed,     \* per code, how many calls have returned {user_id, scope}
  last,         \* the response of the step just taken
  pk,           \* the arguments and result of a validate_pkce call
  keys,         \* auth_events.oauth_rsa_keys, by key_id
  npairs,       \* how many RSA key pairs have been generated
  tokens,       \* auth_events.oauth_tokens, by token_id
  revocations,  \* auth_events.oauth_token_revocations, by token_hash
  issued,       \* the token strings handed out to callers
  grants,       \* per process, how many token pairs it has been asked for
  refreshes,    \* per process, how many refresh requests have passed its checks
  tpc, treq,    \* a token handler in each process: position and locals
  revokedOk,    \* the tokens for which revoke_token has returned True
  seenRevoked,  \* the tokens a validation has found in the revocation index
  refreshed     \* the tokens for which refresh_tokens has returned a new pair

vars == << now, ticks, codes, cpc, creq, cac, redeemed, last, pk,
           keys, npairs, tokens, revocations, issued, grants, refreshes, tpc, treq,
           revokedOk, seenRevoked, refreshed >>
codeVars == << codes, cpc, creq, cac, redeemed >>
tokenVars == << keys, npairs, tokens, revocations, issued, grants, refreshes, tpc, treq,
                revokedOk, seenRevoked, refreshed >>

\* ------------------------------------------------------------- Code Store
\* auth_events.oauth_authorization_codes, primary key: code.
NoRow == [exists |-> FALSE]

\* The row that is left when the cells written by the INSERT ... USING TTL
\* have expired and only the cells written by the UPDATE (no TTL) are alive.
UsedOnlyRow ==
  [exists |-> TRUE, user_id |-> 0, client_id |-> "None", scope |-> {},
   redirect_uri |-> "None", code_challenge |-> None,
   code_challenge_method |-> "None", issued_at |-> 0, expires_at |-> 0,
   ttl |-> 0, used |-> TRUE]

\* OAuthInfrastructure.store_authorization_code, were expires_in taken as
\* minutes (timedelta(minutes=expires_in), TTL expires_in * 60)
store_authorization_code_minutes(code, user_id, client_id, scope, redirect_uri, code_challenge, code_challenge_method, expires_in) ==
  [codes EXCEPT ![code] =
     [exists |-> TRUE, user_id |-> user_id, client_id |-> client_id,
      scope |-> ToSet(scope), redirect_uri |-> redirect_uri,
      code_challenge |-> code_challenge,
      code_challenge_method |-> code_challenge_method,
      issued_at |-> now, expires_at |-> now + expires_in * 60,
      ttl |-> expires_in * 60, used |-> FALSE]]

\* OAuthInfrastructure.store_authorization_code
store_authorization_code(code, user_id, client_id, scope, redirect_uri, code_challenge, code_challenge_method, expires_in) ==
  [codes EXCEPT ![code] =
     [exists |-> TRUE, user_id |-> user_id, client_id |-> client_id,
      scope |-> ToSet(scope), redirect_uri |-> redirect_uri,
      code_challenge |-> code_challenge,
      code_challenge_method |-> code_challenge_method,
      issued_at |-> now, expires_at |-> now + expires_in,
      ttl |-> expires_in, used |-> FALSE]]

\* OAuthInfrastructure.get_authorization_code: the row as the store returns
\* it at time now.  Cells inserted with a TTL are gone once the TTL has run.
get_authorization_code(code) ==
  IF code \notin CodeIds \/ ~codes[code].exists THEN NoRow
  ELSE IF now < codes[code].issued_at + codes[code].ttl THEN codes[code]
  ELSE IF codes[code].used THEN UsedOnlyRow
  ELSE NoRow

\* OAuthInfrastructure.mark_authorization_code_as_used: an unconditional
\* UPDATE ... SET used = true WHERE code = ? (an upsert in CQL).
mark_authorization_code_as_used(code) ==
  [codes EXCEPT ![code] =
     IF codes[code].exists THEN [codes[code] EXCEPT !.used = TRUE]
     ELSE UsedOnlyRow]

\* The checks of OAuthDomain.validate_authorization_code in the order of the
\* code.  Every rejection is "return None" to the caller; the value names the
\* return statement that is taken, "ok" that none is.
RedeemCheck_replay(auth_code, client_id, redirect_uri, code_verifier, t) ==
  IF ~auth_code.exists THEN "not_found"
  ELSE IF t > auth_code.expires_at THEN "expired"
  ELSE IF auth_code.client_id # client_id THEN "client_id"
  ELSE IF auth_code.redirect_uri # redirect_uri THEN "redirect_uri"
  ELSE IF auth_code.code_challenge # None
    THEN IF code_verifier = None \/ code_verifier = <<>> THEN "no_verifier"
         ELSE IF ~validate_pkce(code_verifier, auth_code.code_challenge,
                                auth_code.code_challenge_method) THEN "pkce"
         ELSE "ok"
  ELSE "ok"

RedeemCheck_optional_pkce(auth_code, client_id, redirect_uri, code_verifier, t) ==
  IF ~auth_code.exists THEN "not_found"
  ELSE IF auth_code.used THEN "used"
  ELSE IF t > auth_code.expires_at THEN "expired"
  ELSE IF auth_code.client_id # client_id THEN "client_id"
  ELSE IF auth_code.redirect_uri # redirect_uri THEN "redirect_uri"
  ELSE IF auth_code.code_challenge # None
          /\ code_verifier # None /\ code_verifier # <<>>
    THEN IF ~validate_pkce(code_verifier, auth_code.code_challenge,
                           auth_code.code_challenge_method) THEN "pkce"
         ELSE "ok"
  ELSE "ok"

RedeemCheck_no_uri(auth_code, client_id, redirect_uri, code_verifier, t) ==
  IF ~auth_code.exists THEN "not_found"
  ELSE IF auth_code.used THEN "used"
  ELSE IF t > auth_code.expires_at THEN "expired"
  ELSE IF auth_code.client_id # client_id THEN "client_id"
  ELSE IF auth_code.code_challenge # None
    THEN IF code_verifier = None \/ code_verifier = <<>> THEN "no_verifier"
         ELSE IF ~validate_pkce(code_verifier, auth_code.code_challenge,
                                auth_code.code_challenge_method) THEN "pkce"
         ELSE "ok"
  ELSE "ok"

RedeemCheck(auth_code, client_id, redirect_uri, code_verifier, t) ==
  IF ~auth_code.exists THEN "not_found"
  ELSE IF auth_code.used THEN "used"
  ELSE IF t > auth_code.expires_at THEN "expired"
  ELSE IF auth_code.client_id # client_id THEN "client_id"
  ELSE IF auth_code.redirect_uri # redirect_uri THEN "redirect_uri"
  ELSE IF auth_code.code_challenge # None
    THEN IF code_verifier = None \/ code_verifier = <<>> THEN "no_verifier"
         ELSE IF ~validate_pkce(code_verifier, auth_code.code_challenge,
                                auth_code.code_challenge_method) THEN "pkce"
         ELSE "ok"
  ELSE "ok"

NoReq == [code |-> 0, client_id |-> "None", redirect_uri |-> "None",
          code_verifier |-> None]

\* validate_authorization_code, were it to return no user
Accepted_no_user(req, auth_code) ==
  [op |-> "redeem", code |-> req.code, ok |-> TRUE, why |-> "ok",
   client_id |-> req.client_id, redirect_uri |-> req.redirect_uri,
   code_verifier |-> req.code_verifier,
   user_id |-> 0, scope |-> auth_code.scope]

\* last is the response of the step just taken.  A successful
\* validate_authorization_code returns {user_id, scope}; last keeps the
\* request with it.  A rejected one returns None; last keeps the code that
\* was presented and the return statement taken (why).
Accepted(req, auth_code) ==
  [op |-> "redeem", code |-> req.code, ok |-> TRUE, why |-> "ok",
   client_id |-> req.client_id, redirect_uri |-> req.redirect_uri,
   code_verifier |-> req.code_verifier,
   user_id |-> auth_code.user_id, scope |-> auth_code.scope]

Rejected(code, why) ==
  [op |-> "redeem", code |-> code, ok |-> FALSE, why |-> why,
   client_id |-> "None", redirect_uri |-> "None", code_verifier |-> None,
   user_id |-> 0, scope |-> {}]

NoResponse ==
  [op |-> "none", code |-> 0, ok |-> FALSE, why |-> "none",
   client_id |-> "None", redirect_uri |-> "None", code_verifier |-> None,
   user_id |-> 0, scope |-> {}]

\* OAuthDomain.generate_authorization_code: a fresh code, stored unused.
GenerateCode(user_id, client_id, scope, code_challenge, code_challenge_method, redirect_uri, expires_in) ==
  /\ \E code \in CodeIds :
       /\ ~codes[code].exists
       /\ \A c \in CodeIds : c < code => codes[c].exists
       /\ codes' = store_authorization_code(code, user_id, client_id, Split(scope),
                     redirect_uri, code_challenge, code_challenge_method,
                     expires_in)
  /\ last' = NoResponse
  /\ UNCHANGED << now, ticks, cpc, creq, cac, redeemed, pk, tokenVars >>

\* GenerateCodeRequest (api.py) without the bounds of expires_in
GenerateCodeRequestValid_unbounded(code_challenge, code_challenge_method, expires_in) ==
  /\ code_challenge # None
  /\ code_challenge_method # "None"

\* GenerateCodeRequest (api.py): the request model; a request it does not
\* accept is answered with HTTP 422 before the handler runs.
\* code_challenge: str, code_challenge_method: str,
\* expires_in: int = Field(default=600, ge=60, le=600).
GenerateCodeRequestValid(code_challenge, code_challenge_method, expires_in) ==
  /\ code_challenge # None
  /\ code_challenge_method # "None"
  /\ 60 <= expires_in /\ expires_in <= 600

\* The response of the generate-code endpoint, kept with the request:
\* GenerateCodeResponse(code), or the validation error.
Generated(code, client_id, redirect_uri, expires_in) ==
  [op |-> "generate", code |-> code, ok |-> TRUE, why |-> "ok",
   client_id |-> client_id, redirect_uri |-> redirect_uri,
   code_verifier |-> None, user_id |-> 0, scope |-> {},
   expires_in |-> expires_in]

NotGenerated(client_id, redirect_uri, expires_in) ==
  [op |-> "generate", code |-> 0, ok |-> FALSE, why |-> "validation",
   client_id |-> client_id, redirect_uri |-> redirect_uri,
   code_verifier |-> None, user_id |-> 0, scope |-> {},
   expires_in |-> expires_in]

\* generate_authorization_code (api.py): the request model, then
\* OAuthDomain.generate_authorization_code.
GenerateCodeEndpoint(user_id, client_id, scope, code_challenge, code_challenge_method, redirect_uri, expires_in) ==
  /\ IF GenerateCodeRequestValid(code_challenge, code_challenge_method,
                                 expires_in)
       THEN \E code \in CodeIds :
              /\ ~codes[code].exists
              /\ \A c \in CodeIds : c < code => codes[c].exists
              /\ codes' = store_authorization_code(code, user_id, client_id,
                            Split(scope), redirect_uri, code_challenge,
                            code_challenge_method, expires_in)
              /\ last' = Generated(code, client_id, redirect_uri, expires_in)
       ELSE /\ last' = NotGenerated(client_id, redirect_uri, expires_in)
            /\ UNCHANGED codes
  /\ UNCHANGED << now, ticks, cpc, creq, cac, redeemed, pk, tokenVars >>

\* validate_authorization_code, were it to mark the code used before its
\* checks (a rejected call burns the code)
RedeemRead_mark_first(p, code, client_id, redirect_uri, code_verifier) ==
  /\ cpc[p] = "idle"
  /\ LET auth_code == get_authorization_code(code)
         why == RedeemCheck(auth_code, client_id, redirect_uri, code_verifier, now)
     IN  IF why # "ok"
           THEN /\ last' = Rejected(code, why)
                /\ codes' = IF code \in CodeIds
                              THEN mark_authorization_code_as_used(code)
                              ELSE codes
                /\ UNCHANGED << cpc, creq, cac >>
           ELSE /\ cpc' = [cpc EXCEPT ![p] = "mark"]
                /\ creq' = [creq EXCEPT ![p] =
                              [code |-> code, client_id |-> client_id,
                               redirect_uri |-> redirect_uri,
                               code_verifier |-> code_verifier]]
                /\ cac' = [cac EXCEPT ![p] = auth_code]
                /\ last' = NoResponse
                /\ UNCHANGED codes
  /\ UNCHANGED << now, ticks, redeemed, pk, tokenVars >>

\* OAuthDomain.validate_authorization_code up to the store write: the read
\* of the row and every check.  A rejected call returns None here.
RedeemRead(p, code, client_id, redirect_uri, code_verifier) ==
  /\ cpc[p] = "idle"
  /\ LET auth_code == get_authorization_code(code)
         why == RedeemCheck(auth_code, client_id, redirect_uri, code_verifier, now)
     IN  IF why # "ok"
           THEN /\ last' = Rejected(code, why)
                /\ UNCHANGED << cpc, creq, cac >>
           ELSE /\ cpc' = [cpc EXCEPT ![p] = "mark"]
                /\ creq' = [creq EXCEPT ![p] =
                              [code |-> code, client_id |-> client_id,
                               redirect_uri |-> redirect_uri,
                               code_verifier |-> code_verifier]]
                /\ cac' = [cac EXCEPT ![p] = auth_code]
                /\ last' = NoResponse
  /\ UNCHANGED << now, ticks, codes, redeemed, pk, tokenVars >>

\* ... and from the store write on: mark the code used, return user and scope.
RedeemMark(p) ==
  /\ cpc[p] = "mark"
  /\ codes' = mark_authorization_code_as_used(creq[p].code)
  /\ last' = Accepted(creq[p], cac[p])
  /\ redeemed' = [redeemed EXCEPT ![creq[p].code] = @ + 1]
  /\ cpc' = [cpc EXCEPT ![p] = "idle"]
  /\ creq' = [creq EXCEPT ![p] = NoReq]
  /\ cac' = [cac EXCEPT ![p] = NoRow]
  /\ UNCHANGED << now, ticks, pk, tokenVars >>

\* Time passes.
Tick(d) ==
  /\ ticks < MaxTicks
  /\ now' = now + d
  /\ ticks' = ticks + 1
  /\ last' = NoResponse
  /\ UNCHANGED << codeVars, pk, tokenVars >>

\* -------------------------------------------------------------- Key Store
\* auth_events.oauth_rsa_keys, primary key: key_id.  A table is a function
\* from the primary keys that have a row; INSERT is an upsert.
Upsert(table, key, row) ==
  [k \in (DOMAIN table) \cup {key} |-> IF k = key THEN row ELSE table[k]]

\* datetime.utcnow().strftime("oauth-key-%Y-%m-%d"): one key id per UTC day;
\* the day number stands for the formatted date.
KeyIdAt(t) == t \div 86400

PublicPem(pair) == [kind |-> "public", pair |-> pair]
PrivatePem(pair) == [kind |-> "private", pair |-> pair]

\* OAuthInfrastructure.store_rsa_key
store_rsa_key(key_id, public_key, private_key) ==
  Upsert(keys, key_id,
         [key_id |-> key_id, public_key |-> public_key,
          private_key |-> private_key, algorithm |-> "RS256",
          created_at |-> now, expires_at |-> now + 31536000,
          is_active |-> TRUE])

\* The active rows, were expires_at consulted (AND expires_at > now)
ActiveKeyIds_unexpired ==
  {k \in DOMAIN keys : keys[k].is_active /\ now < keys[k].expires_at}

\* OAuthInfrastructure.get_active_rsa_key: WHERE is_active = true LIMIT 1
\* returns one of these rows, whichever the store comes to first.
ActiveKeyIds == {k \in DOMAIN keys : keys[k].is_active}

NoPem == [kind |-> "None", pair |-> 0]

\* OAuthInfrastructure.get_public_key_by_id
get_public_key_by_id(key_id) ==
  IF key_id \in DOMAIN keys THEN keys[key_id].public_key ELSE NoPem

\* ------------------------------------------------------------------ JWKS
\* The ids of a set of rows in the order the store returns them (by key id).
RECURSIVE InOrder(_)
InOrder(ids) ==
  IF ids = {} THEN << >>
  ELSE LET first == CHOOSE k \in ids : \A j \in ids : k <= j
       IN  << first >> \o InOrder(ids \ {first})

\* OAuthInfrastructure.get_all_public_keys, were it to stop at the first row
\* as get_active_rsa_key does (LIMIT 1)
get_all_public_keys_limit_1 ==
  LET ids == InOrder(ActiveKeyIds)
  IN  [i \in 1..(IF Len(ids) = 0 THEN 0 ELSE 1) |->
         [key_id |-> ids[i], public_key |-> keys[ids[i]].public_key,
          algorithm |-> keys[ids[i]].algorithm]]

\* OAuthInfrastructure.get_all_public_keys: SELECT key_id, public_key,
\* algorithm ... WHERE is_active = true
get_all_public_keys ==
  LET ids == InOrder(ActiveKeyIds)
  IN  [i \in 1..Len(ids) |->
         [key_id |-> ids[i], public_key |-> keys[ids[i]].public_key,
          algorithm |-> keys[ids[i]].algorithm]]

\* load_pem_public_key(...).public_numbers(): the modulus of the pair (a
\* four-byte stand-in, one per pair) and the public exponent 65537.
public_numbers(public_key) ==
  [n |-> 16777216 + public_key.pair, e |-> 65537]

\* The private exponent of a pair, which only the private PEM holds.
private_numbers(private_key) ==
  [d |-> 33554432 + private_key.pair]

\* bytes.fromhex of format(value, "x") padded to an even length: the
\* big-endian bytes of value.
RECURSIVE IntToBytes(_)
IntToBytes(value) ==
  IF value < 256 THEN << value >>
  ELSE IntToBytes(value \div 256) \o << value % 256 >>

\* int_to_base64url of get_jwks
int_to_base64url(value) == rstrip_eq(urlsafe_b64encode(IntToBytes(value)))

\* OAuthDomain.get_jwks, were the private exponent exported with the key
get_jwks_with_d ==
  [keys |->
     [i \in DOMAIN get_all_public_keys |->
        LET key == get_all_public_keys[i]
        IN  [kty |-> "RSA", use |-> "sig", kid |-> key.key_id,
             alg |-> key.algorithm,
             n |-> int_to_base64url(public_numbers(key.public_key).n),
             e |-> int_to_base64url(public_numbers(key.public_key).e),
             d |-> int_to_base64url(
                     private_numbers(keys[key.key_id].private_key).d)]]]

\* OAuthDomain.get_jwks
get_jwks ==
  [keys |->
     [i \in DOMAIN get_all_public_keys |->
        LET key == get_all_public_keys[i]
        IN  [kty |-> "RSA", use |-> "sig", kid |-> key.key_id,
             alg |-> key.algorithm,
             n |-> int_to_base64url(public_numbers(key.public_key).n),
             e |-> int_to_base64url(public_numbers(key.public_key).e)]]]

\* ------------------------------------------------------------------- JWT
\* jwt.encode(payload, private_key, algorithm="RS256", headers={"kid": ...}):
\* the signature is that of the private key's pair over header and payload.
jwt_encode(payload, private_key, kid) ==
  [kid |-> kid, payload |-> payload,
   sig |-> [pair |-> private_key.pair, kid |-> kid, payload |-> payload]]

NoToken ==
  [kid |-> -1, payload |-> << >>,
   sig |-> [pair |-> 0, kid |-> -1, payload |-> << >>]]

\* The signature check of jwt.decode, were a signature of the key's pair
\* over any header and payload enough
jwt_verify_any_content(token, public_key) ==
  token.sig.pair = public_key.pair

\* The signature check of jwt.decode(token, public_key_pem,
\* algorithms=["RS256"]): the signature is one of the key's pair over this
\* header and this payload.
jwt_verify(token, public_key) ==
  /\ token.sig.pair = public_key.pair
  /\ token.sig.kid = token.kid
  /\ token.sig.payload = token.payload

\* hashlib.sha256(token.encode("utf-8")).hexdigest(): collision-free
sha256_hex(token) == [sha256 |-> token]

\* The payload of issue_access_token (no type, no token_id).  iat and exp
\* are int(datetime.timestamp()) of the naive utcnow() value: the server
\* process runs with UTC as its local time, so they are the POSIX seconds.
AccessPayload(user_id, client_id, scope, user_email, user_name, expires_in) ==
  [sub |-> Str(user_id), email |-> user_email, name |-> user_name,
   iss |-> "http://epicdev.com", aud |-> client_id, iat |-> now,
   exp |-> now + expires_in, scope |-> Join(scope),
   type |-> "None", token_id |-> 0]

\* The payload of issue_refresh_token
RefreshPayload(user_id, client_id, scope, token_id, expires_in) ==
  [sub |-> Str(user_id), email |-> "None", name |-> "None",
   iss |-> "http://epicdev.com", aud |-> client_id, iat |-> now,
   exp |-> now + expires_in, scope |-> Join(scope),
   type |-> "refresh", token_id |-> token_id]

\* ------------------------------------------------------------ Token Store
\* auth_events.oauth_tokens: token_id is the position of the row (uuid4 is
\* fresh).  The denormalised oauth_tokens_by_user rows are written with it
\* and read by nothing; they are not kept.
\* OAuthInfrastructure.store_token
store_token(table, user_id, client_id, token_type, token_hash, scope, expires_in, parent_token_id) ==
  Append(table,
    [token_id |-> Len(table) + 1, user_id |-> user_id,
     client_id |-> client_id, token_type |-> token_type,
     token_hash |-> token_hash, scope |-> ToSet(scope), issued_at |-> now,
     expires_at |-> now + expires_in, revoked |-> FALSE, revoked_at |-> 0,
     parent_token_id |-> parent_token_id])

\* OAuthInfrastructure.get_token_by_hash: is there a row with that hash
HasTokenRow(token_hash) ==
  \E i \in DOMAIN tokens : tokens[i].token_hash = token_hash

\* The TTL of a row of oauth_token_revocations (USING TTL 2592000), were it
\* the lifetime of an access token
RevocationTtl_short == 60 * 60

RevocationTtl == 2592000

\* OAuthInfrastructure.is_token_revoked: a row whose TTL has not run out
is_token_revoked(token_hash) ==
  /\ token_hash \in DOMAIN revocations
  /\ now < revocations[token_hash].revoked_at + RevocationTtl

\* The UPDATE of OAuthInfrastructure.revoke_token, were it without its WHERE
\* token_hash = ? (every row flagged)
RevokeUpdate_every_row(token_hash) ==
  [i \in DOMAIN tokens |->
     [tokens[i] EXCEPT !.revoked = TRUE, !.revoked_at = now]]

\* OAuthInfrastructure.revoke_token: the UPDATE of the token rows ...
RevokeUpdate(token_hash) ==
  [i \in DOMAIN tokens |->
     IF tokens[i].token_hash = token_hash
       THEN [tokens[i] EXCEPT !.revoked = TRUE, !.revoked_at = now]
       ELSE tokens[i]]

\* ... and, if get_token_by_hash finds a row, the INSERT into the revocations
RevokeInsert(token_hash) ==
  IF HasTokenRow(token_hash)
    THEN Upsert(revocations, token_hash,
                [token_hash |-> token_hash, revoked_at |-> now,
                 reason |-> "user_requested"])
    ELSE revocations

\* The store may fail a statement (session.execute raises).  fault names the
\* statement of infra.revoke_token that raises: "none", "update" (the first,
\* nothing is written) or "insert" (the last, the token rows are flagged).
\* OAuthDomain.revoke_token returns False then, True otherwise.  The
\* specifications below draw the fault from Faults.
Faults == {"none", "update"}
TokensAfterRevoke(token, fault) ==
  IF fault = "update" THEN tokens ELSE RevokeUpdate(sha256_hex(token))
RevocationsAfterRevoke(token, fault) ==
  IF fault = "none" THEN RevokeInsert(sha256_hex(token)) ELSE revocations

\* OAuthDomain.validate_access_token, were it to turn down refresh tokens
ValidateWhy_access_only(token, t) ==
  IF token.kid = -1 THEN "no_kid"
  ELSE IF get_public_key_by_id(token.kid) = NoPem THEN "unknown_kid"
  ELSE IF ~jwt_verify(token, get_public_key_by_id(token.kid)) THEN "bad_signature"
  ELSE IF token.payload.exp <= t THEN "expired"
  ELSE IF token.payload.type = "refresh" THEN "not_access"
  ELSE IF is_token_revoked(sha256_hex(token)) THEN "revoked"
  ELSE "ok"

\* OAuthDomain.validate_access_token without the look at the revocations
ValidateWhy_no_revocation(token, t) ==
  IF token.kid = -1 THEN "no_kid"
  ELSE IF get_public_key_by_id(token.kid) = NoPem THEN "unknown_kid"
  ELSE IF ~jwt_verify(token, get_public_key_by_id(token.kid)) THEN "bad_signature"
  ELSE IF token.payload.exp <= t THEN "expired"
  ELSE "ok"

\* OAuthDomain.validate_access_token: every rejection is "return None"; the
\* value names the one taken.  jwt.decode checks the signature, then exp
\* (expired when exp <= now); the audience is not checked.
ValidateWhy(token, t) ==
  IF token.kid = -1 THEN "no_kid"
  ELSE IF get_public_key_by_id(token.kid) = NoPem THEN "unknown_kid"
  ELSE IF ~jwt_verify(token, get_public_key_by_id(token.kid)) THEN "bad_signature"
  ELSE IF token.payload.exp <= t THEN "expired"
  ELSE IF is_token_revoked(sha256_hex(token)) THEN "revoked"
  ELSE "ok"

\* The checks of refresh_tokens (api.py) without the one of the token type
RefreshWhy_any_type(token, client_id, t) ==
  IF ValidateWhy(token, t) # "ok" THEN ValidateWhy(token, t)
  ELSE IF token.payload.aud # client_id THEN "client_id"
  ELSE "ok"

\* The checks of refresh_tokens (api.py) before it revokes
RefreshWhy(token, client_id, t) ==
  IF ValidateWhy(token, t) # "ok" THEN ValidateWhy(token, t)
  ELSE IF token.payload.type # "refresh" THEN "not_refresh"
  ELSE IF token.payload.aud # client_id THEN "client_id"
  ELSE "ok"

\* --------------------------------------------------------- token handlers
\* The locals of a token handler between two of its steps.
NoCall ==
  [op |-> "none", phase |-> "none", user_id |-> 0, client_id |-> "None",
   scope |-> << >>, user_email |-> "None", user_name |-> "None",
   access |-> NoToken, presented |-> NoToken]

\* issue_access_token once it has its key_data: sign, store the hash.
AccessToken(call, key_data) ==
  jwt_encode(AccessPayload(call.user_id, call.client_id, call.scope,
                           call.user_email, call.user_name, 3600),
             key_data.private_key, key_data.key_id)

\* The row of the access token, were the token string itself stored
TokensWithAccess_raw(table, call, key_data) ==
  store_token(table, call.user_id, call.client_id, "access",
              AccessToken(call, key_data), call.scope, 3600, 0)

TokensWithAccess(table, call, key_data) ==
  store_token(table, call.user_id, call.client_id, "access",
              sha256_hex(AccessToken(call, key_data)), call.scope, 3600, 0)

\* issue_refresh_token once it has its key_data: token_id, sign, store.
RefreshToken(call, key_data) ==
  jwt_encode(RefreshPayload(call.user_id, call.client_id, call.scope,
                            Len(tokens) + 1, 2592000),
             key_data.private_key, key_data.key_id)

TokensWithRefresh(call, key_data) ==
  store_token(tokens, call.user_id, call.client_id, "refresh",
              sha256_hex(RefreshToken(call, key_data)), call.scope, 2592000, 0)

\* get_or_create_rsa_key for the access token, on table (the token rows as
\* the handler leaves them so far): with an active key the access token is
\* signed and stored; with none the handler goes on to generate_rsa_key.
AccessStep(p, call, table) ==
  IF ActiveKeyIds = {}
    THEN /\ tpc' = [tpc EXCEPT ![p] = "generate"]
         /\ treq' = [treq EXCEPT ![p] = [call EXCEPT !.phase = "access"]]
         /\ tokens' = table
    ELSE \E k \in ActiveKeyIds :
         /\ tpc' = [tpc EXCEPT ![p] = "refresh_token"]
         /\ treq' = [treq EXCEPT ![p] =
                       [call EXCEPT !.phase = "refresh",
                                    !.access = AccessToken(call, keys[k])]]
         /\ tokens' = TokensWithAccess(table, call, keys[k])

\* The handler returns the pair to its caller.
ReturnPair(p, call, access, refresh) ==
  /\ tpc' = [tpc EXCEPT ![p] = "idle"]
  /\ treq' = [treq EXCEPT ![p] = NoCall]
  /\ issued' = issued \cup {access, refresh}
  /\ refreshed' = IF call.op = "refresh"
                    THEN refreshed \cup {call.presented} ELSE refreshed

\* issue_tokens (api.py), up to and including the first store operations of
\* issue_access_token.
IssueTokens(p, user_id, client_id, scope, user_email, user_name) ==
  /\ tpc[p] = "idle"
  /\ grants[p] < MaxGrants
  /\ grants' = [grants EXCEPT ![p] = grants[p] + 1]
  /\ AccessStep(p, [NoCall EXCEPT !.op = "issue", !.user_id = user_id,
                      !.client_id = client_id, !.scope = scope,
                      !.user_email = user_email, !.user_name = user_name],
                tokens)
  /\ UNCHANGED << now, ticks, codeVars, last, pk, keys, npairs, revocations, issued,
                  refreshes, revokedOk, seenRevoked, refreshed >>

\* generate_rsa_key: a new pair under the key id of the day, stored with
\* is_active = true; the caller signs with the pair it generated.
GenerateKey(p) ==
  /\ tpc[p] = "generate"
  /\ npairs < MaxKeyPairs
  /\ npairs' = npairs + 1
  /\ keys' = store_rsa_key(KeyIdAt(now), PublicPem(npairs + 1),
                           PrivatePem(npairs + 1))
  /\ LET key_data == [key_id |-> KeyIdAt(now),
                      public_key |-> PublicPem(npairs + 1),
                      private_key |-> PrivatePem(npairs + 1)]
     IN  IF treq[p].phase = "access"
           THEN /\ tpc' = [tpc EXCEPT ![p] = "refresh_token"]
                /\ treq' = [treq EXCEPT ![p] =
                              [treq[p] EXCEPT
                                 !.phase = "refresh",
                                 !.access = AccessToken(treq[p], key_data)]]
                /\ tokens' = TokensWithAccess(tokens, treq[p], key_data)
                /\ UNCHANGED << issued, refreshed >>
           ELSE /\ tokens' = TokensWithRefresh(treq[p], key_data)
                /\ ReturnPair(p, treq[p], treq[p].access,
                              RefreshToken(treq[p], key_data))
  /\ UNCHANGED << now, ticks, codeVars, last, pk, revocations, grants, refreshes,
                  revokedOk, seenRevoked >>

\* OAuthDomain.generate_rsa_key called on its own, the one operation of the
\* code that puts a fresh key pair into the key store.
generate_rsa_key ==
  /\ npairs < MaxKeyPairs
  /\ npairs' = npairs + 1
  /\ keys' = store_rsa_key(KeyIdAt(now), PublicPem(npairs + 1),
                           PrivatePem(npairs + 1))
  /\ UNCHANGED << now, ticks, codeVars, last, pk, tokens, revocations, issued,
                  grants, refreshes, tpc, treq, revokedOk, seenRevoked,
                  refreshed >>

\* issue_refresh_token: get_or_create_rsa_key again, sign, store, return.
IssueRefresh(p) ==
  /\ tpc[p] = "refresh_token"
  /\ IF ActiveKeyIds = {}
       THEN /\ tpc' = [tpc EXCEPT ![p] = "generate"]
            /\ UNCHANGED << treq, tokens, issued, refreshed >>
       ELSE \E k \in ActiveKeyIds :
            /\ tokens' = TokensWithRefresh(treq[p], keys[k])
            /\ ReturnPair(p, treq[p], treq[p].access,
                          RefreshToken(treq[p], keys[k]))
  /\ UNCHANGED << now, ticks, codeVars, last, pk, keys, npairs, revocations, grants,
                  refreshes,
                  revokedOk, seenRevoked >>

\* validate_token (api.py): OAuthDomain.validate_access_token on a token
\* string a caller holds.
ValidateToken(token) ==
  /\ token \in issued
  /\ LET why == ValidateWhy(token, now)
     IN  seenRevoked' = IF why = "revoked"
                          THEN seenRevoked \cup {token} ELSE seenRevoked
  /\ UNCHANGED << now, ticks, codeVars, last, pk, keys, npairs, tokens, revocations,
                  issued, grants, refreshes, tpc, treq, revokedOk, refreshed >>

\* What the key store and the revocation index do to the SELECTs of one
\* validate_access_token call: answer, or raise (the store is unreachable).
ReadFaults == {"none", "select"}

\* ValidateTokenResponse of validate_token (api.py), beside the token asked
\* about and what the store did.  A SELECT that raises is caught by the
\* "except Exception: return None" of validate_access_token.
ValidateTokenResponse(token, t, fault) ==
  IF fault # "none" \/ ValidateWhy(token, t) # "ok"
    THEN [op |-> "validate", token |-> token, fault |-> fault,
          valid |-> FALSE, user_id |-> 0, client_id |-> "None",
          scope |-> << >>, error |-> "Invalid or expired token"]
    ELSE [op |-> "validate", token |-> token, fault |-> fault,
          valid |-> TRUE, user_id |-> token.payload.sub[2],
          client_id |-> token.payload.aud,
          scope |-> Split(token.payload.scope), error |-> "None"]

\* validate_token (api.py) on any token string, its response kept in last.
ValidateTokenEndpoint(token, fault) ==
  /\ last' = ValidateTokenResponse(token, now, fault)
  /\ seenRevoked' = IF fault = "none" /\ ValidateWhy(token, now) = "revoked"
                      THEN seenRevoked \cup {token} ELSE seenRevoked
  /\ UNCHANGED << now, ticks, codeVars, pk, keys, npairs, tokens, revocations,
                  issued, grants, refreshes, tpc, treq, revokedOk, refreshed >>

\* get_jwks (api.py): the key set as the response, kept in last.
GetJwks ==
  /\ last' = [op |-> "jwks", keys |-> get_jwks.keys]
  /\ UNCHANGED << now, ticks, codeVars, pk, tokenVars >>

\* revoke_token (api.py): OAuthDomain.revoke_token; 400 when it returns False.
RevokeToken(token, fault) ==
  /\ token \in issued
  /\ tokens' = TokensAfterRevoke(token, fault)
  /\ revocations' = RevocationsAfterRevoke(token, fault)
  /\ revokedOk' = IF fault = "none" THEN revokedOk \cup {token} ELSE revokedOk
  /\ UNCHANGED << now, ticks, codeVars, last, pk, keys, npairs, issued, grants,
                  refreshes, tpc, treq, seenRevoked, refreshed >>

\* revoke_token (api.py) with its response kept in last: the message when
\* OAuthDomain.revoke_token returns True, 400 when it returns False.
RevokeTokenEndpoint(token, fault) ==
  /\ token \in issued
  /\ tokens' = TokensAfterRevoke(token, fault)
  /\ revocations' = RevocationsAfterRevoke(token, fault)
  /\ revokedOk' = IF fault = "none" THEN revokedOk \cup {token} ELSE revokedOk
  /\ last' = [op |-> "revoke", token |-> token, ok |-> fault = "none"]
  /\ UNCHANGED << now, ticks, codeVars, pk, keys, npairs, issued, grants,
                  refreshes, tpc, treq, seenRevoked, refreshed >>

\* refresh_tokens, were it to revoke the presented token before its checks
RefreshValidate_revoke_first(p, token, client_id) ==
  /\ tpc[p] = "idle"
  /\ refreshes[p] < MaxRefreshes
  /\ token \in issued
  /\ tokens' = TokensAfterRevoke(token, "none")
  /\ revocations' = RevocationsAfterRevoke(token, "none")
  /\ LET why == RefreshWhy(token, client_id, now)
     IN  /\ IF why # "ok"
              THEN UNCHANGED << tpc, treq, refreshes >>
              ELSE /\ tpc' = [tpc EXCEPT ![p] = "rotate"]
                   /\ treq' = [treq EXCEPT ![p] =
                        [NoCall EXCEPT !.op = "refresh",
                           !.user_id = token.payload.sub[2],
                           !.client_id = client_id,
                           !.scope = Split(token.payload.scope),
                           !.user_email = "user@example.com",
                           !.user_name = "User",
                           !.presented = token]]
                   /\ refreshes' = [refreshes EXCEPT ![p] = refreshes[p] + 1]
         /\ seenRevoked' = IF why = "revoked"
                             THEN seenRevoked \cup {token} ELSE seenRevoked
  /\ UNCHANGED << now, ticks, codeVars, last, pk, keys, npairs,
                  issued, grants, revokedOk, refreshed >>

\* refresh_tokens (api.py) up to its last check: validate, type, client_id.
RefreshValidate(p, token, client_id) ==
  /\ tpc[p] = "idle"
  /\ refreshes[p] < MaxRefreshes
  /\ token \in issued
  /\ LET why == RefreshWhy(token, client_id, now)
     IN  /\ IF why # "ok"
              THEN UNCHANGED << tpc, treq, refreshes >>
              ELSE /\ tpc' = [tpc EXCEPT ![p] = "rotate"]
                   /\ treq' = [treq EXCEPT ![p] =
                        [NoCall EXCEPT !.op = "refresh",
                           !.user_id = token.payload.sub[2],
                           !.client_id = client_id,
                           !.scope = Split(token.payload.scope),
                           !.user_email = "user@example.com",
                           !.user_name = "User",
                           !.presented = token]]
                   /\ refreshes' = [refreshes EXCEPT ![p] = refreshes[p] + 1]
         /\ seenRevoked' = IF why = "revoked"
                             THEN seenRevoked \cup {token} ELSE seenRevoked
  /\ UNCHANGED << now, ticks, codeVars, last, pk, keys, npairs, tokens, revocations,
                  issued, grants, revokedOk, refreshed >>

\* ... then domain.revoke_token on the presented token, its result dropped,
\* and issue_access_token.
RefreshRotate(p, fault) ==
  /\ tpc[p] = "rotate"
  /\ revocations' = RevocationsAfterRevoke(treq[p].presented, fault)
  /\ AccessStep(p, treq[p], TokensAfterRevoke(treq[p].presented, fault))
  /\ UNCHANGED << now, ticks, codeVars, last, pk, keys, npairs, issued, grants,
                  refreshes, revokedOk, seenRevoked, refreshed >>

\* ---------------------------------------------------------- specifications
NoPk == [verifier |-> None, challenge |-> None, method |-> "None",
         applied |-> FALSE, result |-> FALSE]

\* The state after deployment: the clock at the epoch of the model, empty
\* tables, every process idle.
InitStores ==
  /\ now = 0
  /\ ticks = 0
  /\ codes = [c \in CodeIds |-> NoRow]
  /\ cpc = [p \in Procs |-> "idle"]
  /\ creq = [p \in Procs |-> NoReq]
  /\ cac = [p \in Procs |-> NoRow]
  /\ last = NoResponse
  /\ redeemed = [c \in CodeIds |-> 0]
  /\ keys = << >>
  /\ npairs = 0
  /\ tokens = << >>
  /\ revocations = << >>
  /\ issued = {}
  /\ grants = [p \in Procs |-> 0]
  /\ refreshes = [p \in Procs |-> 0]
  /\ tpc = [p \in Procs |-> "idle"]
  /\ treq = [p \in Procs |-> NoCall]
  /\ revokedOk = {}
  /\ seenRevoked = {}
  /\ refreshed = {}

Init ==
  /\ InitStores
  /\ pk = NoPk

S256Of(v) == rstrip_eq(urlsafe_b64encode(Sha256(v)))

CodeVerifiers == {None, <<>>, <<97>>, <<98>>}
CodeChallenges == {<<None, "None">>, <<S256Of(<<97>>), "S256">>,
                   <<(<<97>>), "plain">>}
CodeGrants == {<<"c1", "https://app/cb">>, <<"c2", "https://evil/cb">>}

NextCode ==
  \/ \E u \in Users, g \in CodeGrants, sc \in ScopeStrings, ch \in CodeChallenges,
        exp \in {60} :
       GenerateCode(u, g[1], sc, ch[1], ch[2], g[2], exp)
  \/ \E p \in Procs, c \in CodeIds, cl \in Clients, uri \in RedirectUris,
        v \in CodeVerifiers :
       RedeemRead(p, c, cl, uri, v)
  \/ \E p \in Procs : RedeemMark(p)
  \/ Tick(60)

SpecCode == Init /\ [][NextCode]_vars

\* Expiry of a code: codes of sixty seconds, redeemed by the client they were
\* issued to; a second, fifty-nine seconds or a minute passes.
NextExpiry ==
  \/ \E u \in Users, sc \in ScopeStrings, ch \in CodeChallenges :
       GenerateCode(u, "c1", sc, ch[1], ch[2], "https://app/cb", 60)
  \/ \E p \in Procs, c \in CodeIds, v \in CodeVerifiers :
       RedeemRead(p, c, "c1", "https://app/cb", v)
  \/ \E p \in Procs : RedeemMark(p)
  \/ \E d \in {1, 59, 60} : Tick(d)

SpecExpiry == Init /\ [][NextExpiry]_vars

\* The generate-code endpoint with lifetimes at and around its bounds.
ExpiresIns == {59, 60, 600, 601}

NextIssue ==
  \/ \E u \in Users, g \in CodeGrants, sc \in ScopeStrings,
        ch \in CodeChallenges, exp \in ExpiresIns :
       GenerateCodeEndpoint(u, g[1], sc, ch[1], ch[2], g[2], exp)
  \/ \E p \in Procs, c \in CodeIds, g \in CodeGrants :
       RedeemRead(p, c, g[1], g[2], << 97 >>)
  \/ \E p \in Procs : RedeemMark(p)
  \/ Tick(60)

SpecIssue == Init /\ [][NextIssue]_vars

TokenClients == {"c1", "c2"}
ScopeLists == {<< << "profile" >>, << "email" >> >>}

\* Key generation and signing: both processes issue, a day passes.
NextKey ==
  \/ \E p \in Procs, u \in Users, sc \in ScopeLists :
       IssueTokens(p, u, "c1", sc, "u42@example.com", "User 42")
  \/ \E p \in Procs : GenerateKey(p)
  \/ \E p \in Procs : IssueRefresh(p)
  \/ \E t \in issued : ValidateToken(t)
  \/ Tick(86400)

SpecKey == Init /\ [][NextKey]_vars

\* Rotation: one process asks for a pair, both refresh, the store may fail
\* the revocation; fifteen days pass.
NextRefresh ==
  \/ \E u \in Users, sc \in ScopeLists :
       IssueTokens("p1", u, "c1", sc, "u42@example.com", "User 42")
  \/ \E p \in Procs : GenerateKey(p)
  \/ \E p \in Procs : IssueRefresh(p)
  \/ \E p \in Procs, t \in issued, cl \in TokenClients :
       RefreshValidate(p, t, cl)
  \/ \E p \in Procs, f \in Faults : RefreshRotate(p, f)
  \/ Tick(1296000)

SpecRefresh == Init /\ [][NextRefresh]_vars

\* Rotation by one process: it asks for a pair and refreshes, for either
\* client, the store may fail the revocation; an hour or fifteen days pass.
NextRotate ==
  \/ \E u \in Users, sc \in ScopeLists :
       IssueTokens("p1", u, "c1", sc, "u42@example.com", "User 42")
  \/ \E p \in Procs : GenerateKey(p)
  \/ \E p \in Procs : IssueRefresh(p)
  \/ \E t \in issued, cl \in TokenClients : RefreshValidate("p1", t, cl)
  \/ \E p \in Procs, f \in Faults : RefreshRotate(p, f)
  \/ \E d \in {3600, 1296000} : Tick(d)

SpecRotate == Init /\ [][NextRotate]_vars

\* Concurrent rotation with a store that never fails: one process asks for
\* a pair, both processes refresh for its client; an hour passes.
NextRace ==
  \/ \E u \in Users, sc \in ScopeLists :
       IssueTokens("p1", u, "c1", sc, "u42@example.com", "User 42")
  \/ \E p \in Procs : GenerateKey(p)
  \/ \E p \in Procs : IssueRefresh(p)
  \/ \E p \in Procs, t \in issued : RefreshValidate(p, t, "c1")
  \/ \E p \in Procs : RefreshRotate(p, "none")
  \/ Tick(3600)

SpecRace == Init /\ [][NextRace]_vars

\* Refresh requests that are turned down: one process asks for a pair, both
\* processes refresh, for either client, with a store that never fails;
\* thirty days pass, once.
NextReject ==
  \/ \E u \in Users, sc \in ScopeLists :
       IssueTokens("p1", u, "c1", sc, "u42@example.com", "User 42")
  \/ \E p \in Procs : GenerateKey(p)
  \/ \E p \in Procs : IssueRefresh(p)
  \/ \E p \in Procs, t \in issued, cl \in TokenClients :
       RefreshValidate(p, t, cl)
  \/ \E p \in Procs : RefreshRotate(p, "none")
  \/ ticks = 0 /\ Tick(2592000)

SpecReject == Init /\ [][NextReject]_vars

\* Token strings made from the token a caller holds without the private key
\* of the server: the kid dropped or replaced by one that names no key, the
\* payload altered under the old signature, the token signed anew with a key
\* pair of the caller's (0); and a genuine signature under a header that has
\* no kid.
Forgeries(t) ==
  {[t EXCEPT !.kid = -1], [t EXCEPT !.kid = t.kid + 1000],
   [t EXCEPT !.payload = [t.payload EXCEPT !.sub = Str(7)]],
   jwt_encode(t.payload, PrivatePem(0), t.kid),
   jwt_encode([t.payload EXCEPT !.sub = Str(7)], PrivatePem(0), t.kid)}
    \cup {jwt_encode(t.payload, keys[k].private_key, -1) : k \in DOMAIN keys}

Presentable == issued \cup UNION {Forgeries(t) : t \in issued}

\* Validation of what callers present: both processes issue, so that the
\* key row of the day may be replaced while tokens are out; genuine and
\* forged tokens are validated.
NextForge ==
  \/ \E p \in Procs, u \in Users, sc \in ScopeLists :
       IssueTokens(p, u, "c1", sc, "u42@example.com", "User 42")
  \/ \E p \in Procs : GenerateKey(p)
  \/ \E p \in Procs : IssueRefresh(p)
  \/ \E t \in Presentable : ValidateTokenEndpoint(t, "none")

SpecForge == Init /\ [][NextForge]_vars

\* A fresh key while tokens are out: one process asks for pairs, a key is
\* generated on its own, tokens are validated while the store answers or
\* not; a day passes.
NextFreshKey ==
  \/ \E u \in Users, sc \in ScopeLists :
       IssueTokens("p1", u, "c1", sc, "u42@example.com", "User 42")
  \/ \E p \in Procs : GenerateKey(p)
  \/ \E p \in Procs : IssueRefresh(p)
  \/ generate_rsa_key
  \/ \E t \in issued, f \in ReadFaults : ValidateTokenEndpoint(t, f)
  \/ Tick(86400)

SpecFreshKey == Init /\ [][NextFreshKey]_vars

\* The keys over time: both processes issue and the key set is published; a
\* year passes, the lifetime written into a key row.
NextJwks ==
  \/ \E p \in Procs, u \in Users, sc \in ScopeLists :
       IssueTokens(p, u, "c1", sc, "u42@example.com", "User 42")
  \/ \E p \in Procs : GenerateKey(p)
  \/ \E p \in Procs : IssueRefresh(p)
  \/ GetJwks
  \/ Tick(31536000)

SpecJwks == Init /\ [][NextJwks]_vars

\* Calls made again: one process asks for pairs; tokens are validated and
\* revoked, the key set is published, each any number of times; an hour
\* passes.
NextRetry ==
  \/ \E u \in Users, sc \in ScopeLists :
       IssueTokens("p1", u, "c1", sc, "u42@example.com", "User 42")
  \/ \E p \in Procs : GenerateKey(p)
  \/ \E p \in Procs : IssueRefresh(p)
  \/ \E t \in issued : ValidateTokenEndpoint(t, "none")
  \/ \E t \in issued : RevokeTokenEndpoint(t, "none")
  \/ GetJwks
  \/ Tick(3600)

SpecRetry == Init /\ [][NextRetry]_vars

\* The authorization-code flow from end to end.  Each client asks for a
\* code for its user and scope with the S256 challenge of its verifier and
\* redeems with it; the caller of validate-code then asks for tokens with the
\* user, client and scope of the answer, list(row.scope) being the scope
\* set in whatever order the driver yields it; the access token is
\* validated.
FlowGrants ==
  {[client_id |-> "c1", redirect_uri |-> "https://app/cb", user_id |-> 42,
    scope |-> Join(<< << "profile" >>, << "email" >> >>),
    code_verifier |-> << 97 >>],
   [client_id |-> "c2", redirect_uri |-> "https://evil/cb", user_id |-> 7,
    scope |-> Join(<< << "email" >> >>), code_verifier |-> << 98 >>]}

Orderings(set) ==
  {list \in [1..Cardinality(set) -> set] :
     \A x \in set : \E i \in DOMAIN list : list[i] = x}

NextFlow ==
  \/ \E g \in FlowGrants :
       GenerateCodeEndpoint(g.user_id, g.client_id, g.scope,
                            S256Of(g.code_verifier), "S256",
                            g.redirect_uri, 600)
  \/ \E c \in CodeIds, g \in FlowGrants :
       RedeemRead("p1", c, g.client_id, g.redirect_uri, g.code_verifier)
  \/ \E p \in Procs : RedeemMark(p)
  \/ /\ last.op = "redeem"
     /\ last.ok
     /\ \E sc \in Orderings(last.scope) :
          IssueTokens("p1", last.user_id, last.client_id, sc,
                      "user@example.com", "User")
  \/ \E p \in Procs : GenerateKey(p)
  \/ \E p \in Procs : IssueRefresh(p)
  \/ \E t \in issued : ValidateTokenEndpoint(t, "none")
  \/ Tick(60)

SpecFlow == Init /\ [][NextFlow]_vars

\* The life of a token: one process asks for pairs, anyone validates and
\* revokes; an hour passes, or the rest of thirty days.
NextToken ==
  \/ \E u \in Users, sc \in ScopeLists :
       IssueTokens("p1", u, "c1", sc, "u42@example.com", "User 42")
  \/ \E p \in Procs : GenerateKey(p)
  \/ \E p \in Procs : IssueRefresh(p)
  \/ \E t \in issued : ValidateToken(t)
  \/ \E t \in issued, f \in Faults : RevokeToken(t, f)
  \/ \E d \in {3600, 2588400} : Tick(d)

SpecToken == Init /\ [][NextToken]_vars

\* ------------------------------------------------------------ OAuth clients
\* The oauth_clients table of back-api as an administrator has filled it:
\* c1 is registered and active with one redirect URI, app-old is registered
\* and no longer active, c2 is not registered.
oauth_clients ==
  [client_id \in {"c1", "app-old"} |->
     [client_id |-> client_id,
      redirect_uris |-> IF client_id = "c1" THEN {"https://app/cb"}
                        ELSE {"https://old/cb"},
      is_active |-> client_id = "c1"]]

NoClient == [client_id |-> "None", redirect_uris |-> {}, is_active |-> FALSE]

\* OAuthClientInfrastructure.get_oauth_client
get_oauth_client(client_id) ==
  IF client_id \in DOMAIN oauth_clients THEN oauth_clients[client_id]
  ELSE NoClient

\* ---- validate_pkce as a pure function: the inputs are drawn by InitPkce
\* One bit of one character flipped (the seven bits of an ASCII character).
FlipBit(b, k) == IF (b \div Pow(2, k)) % 2 = 1 THEN b - Pow(2, k) ELSE b + Pow(2, k)
BitFlips(v) == {[v EXCEPT ![i] = FlipBit(v[i], k)] : i \in 1..Len(v), k \in 0..6}

PkceVerifiers == Verifiers \cup UNION {BitFlips(v) : v \in Verifiers}
PkceChallenges ==
  {S256Of(v) : v \in Verifiers} \cup {urlsafe_b64encode(Sha256(v)) : v \in Verifiers}
    \cup Verifiers
PkceMethods == {"S256", "plain", "s256", "none", "None"}

InitPkce ==
  /\ InitStores
  /\ \E v \in PkceVerifiers, ch \in PkceChallenges, m \in PkceMethods :
       pk = [verifier |-> v, challenge |-> ch, method |-> m,
             applied |-> FALSE, result |-> FALSE]

ValidatePkce ==
  /\ ~pk.applied
  /\ pk' = [pk EXCEPT !.applied = TRUE,
                      !.result = validate_pkce(pk.verifier, pk.challenge, pk.method)]
  /\ UNCHANGED << now, ticks, codeVars, last, tokenVars >>

NextPkce == ValidatePkce

SpecPkce == InitPkce /\ [][NextPkce]_vars

\* =================================================================== claims

\* C1: for any authorization code, across every interleaving of concurrent
\* validate_authorization_code calls, at most one call returns success.
C1_AtMostOneRedemption == \A c \in CodeIds : redeemed[c] <= 1

\* C2: once a code is marked used it stays used, and no redeem that starts
\* on a used code gets past the checks (so it returns None), whatever its
\* arguments and whatever the time.
C2_UsedIsTerminal ==
  [][ /\ \A c \in CodeIds :
           (codes[c].exists /\ codes[c].used)
             => (codes'[c].exists /\ codes'[c].used)
      /\ \A p \in Procs :
           (cpc[p] = "idle" /\ cpc'[p] = "mark")
             => ~(codes[creq'[p].code].exists /\ codes[creq'[p].code].used)
      /\ (last'.op = "redeem" /\ last'.ok)
             => \E p \in Procs :
                  /\ cpc[p] = "mark" /\ cpc'[p] = "idle"
                  /\ creq[p].code = last'.code ]_vars

\* C2 witness: a redeem of a code that an earlier redeem marked used has just
\* been rejected as already used.
C2_Witness ==
  /\ last.op = "redeem" /\ ~last.ok /\ last.why = "used"
  /\ redeemed[last.code] = 1

\* C3: in every state, also while several processes are in
\* get_or_create_rsa_key on an empty key store, at most one row of the key
\* store has is_active = true.
C3_AtMostOneActiveKey == Cardinality(ActiveKeyIds) <= 1

\* C4: for every token handed out that is unexpired and unrevoked, the key
\* store row found under the token's kid holds the public key of the pair
\* that signed the token.
C4_IssuedTokensStayVerifiable ==
  \A t \in issued :
    (now < t.payload.exp /\ ~is_token_revoked(sha256_hex(t)))
      => /\ get_public_key_by_id(t.kid) # NoPem
         /\ jwt_verify(t, get_public_key_by_id(t.kid))

\* C5: once refresh_tokens has returned a new pair for a refresh token, no
\* later refresh_tokens call presenting that token passes the checks and
\* goes on to issue.
C5_RotationIsSingleUse ==
  [][\A p \in Procs :
       (tpc[p] = "idle" /\ tpc'[p] = "rotate")
         => treq'[p].presented \notin refreshed]_vars

\* C6: a token for which revoke_token has returned True is not validated
\* from then on, and while its signature verifies and it has not expired the
\* validation fails at the revocation check.
C6_RevokedThenInvalid ==
  \A t \in revokedOk :
    /\ ValidateWhy(t, now) # "ok"
    /\ ( /\ get_public_key_by_id(t.kid) # NoPem
         /\ jwt_verify(t, get_public_key_by_id(t.kid))
         /\ now < t.payload.exp )
         => ValidateWhy(t, now) = "revoked"

\* C6 witness: a token was revoked with success, a validation after that
\* found it revoked, and it is still unexpired.
C6_Witness ==
  \E t \in revokedOk \cap seenRevoked :
    now < t.payload.exp /\ ValidateWhy(t, now) = "revoked"

\* C7: a token that a validation has once found in the revocation index is
\* never validated again, and the row of a token in the revocation index
\* (TTL 2592000) is still there for as long as the token has not expired.
C7_RevokedIsTerminal ==
  /\ \A t \in seenRevoked : ValidateWhy(t, now) # "ok"
  /\ \A t \in issued :
       (sha256_hex(t) \in DOMAIN revocations /\ now < t.payload.exp)
         => is_token_revoked(sha256_hex(t))

\* C7 witness: a token once found revoked whose row in the revocation index
\* has run out of its TTL (the token has expired by then).
C7_Witness ==
  \E t \in seenRevoked :
    /\ sha256_hex(t) \in DOMAIN revocations
    /\ ~is_token_revoked(sha256_hex(t))
    /\ ValidateWhy(t, now) = "expired"

\* C11: a code issued with expires_in = 60 is not redeemable 61 seconds after
\* it was issued or later: no validate_authorization_code call made then,
\* with the recorded client_id and redirect_uri and any verifier, passes its
\* checks.
C11_ExpiredCodeNotRedeemable ==
  \A c \in CodeIds, p \in Procs, v \in CodeVerifiers :
    (codes[c].exists /\ now >= codes[c].issued_at + 61)
      => ~ENABLED ( /\ RedeemRead(p, c, codes[c].client_id,
                                  codes[c].redirect_uri, v)
                   /\ cpc'[p] = "mark" )

\* C11 witness: 61 seconds after an unused code was issued a redeem of it has
\* just been rejected as not found or expired.
C11_Witness ==
  /\ last.op = "redeem" /\ ~last.ok
  /\ last.why \in {"not_found", "expired"}
  /\ codes[last.code].exists /\ ~codes[last.code].used
  /\ now = codes[last.code].issued_at + 61

\* C12 as claimed: every generate-code request stores a code, and the
\* lifetime of that code is the requested expires_in clamped into [60, 600].
C12_TtlClamped ==
  last.op = "generate"
    => /\ last.ok
       /\ codes[last.code].expires_at - codes[last.code].issued_at
            = IF last.expires_in < 60 THEN 60
              ELSE IF last.expires_in > 600 THEN 600
              ELSE last.expires_in

\* C12 amended: every stored code has a lifetime (expires_at - issued_at, and
\* TTL) within [60, 600]; a generate-code request whose expires_in is outside
\* that range is rejected, and an accepted one stores exactly the requested
\* lifetime.
C12_TtlWithinRange ==
  /\ \A c \in CodeIds :
       codes[c].exists
         => /\ 60 <= codes[c].expires_at - codes[c].issued_at
            /\ codes[c].expires_at - codes[c].issued_at <= 600
            /\ codes[c].ttl = codes[c].expires_at - codes[c].issued_at
  /\ last.op = "generate"
       => /\ (last.expires_in < 60 \/ last.expires_in > 600) => ~last.ok
          /\ last.ok => codes[last.code].expires_at
                          - codes[last.code].issued_at = last.expires_in

\* C12 witness: a request for 59 seconds has just been rejected while a code
\* stored by an earlier request is there.
C12_Witness ==
  /\ last.op = "generate" /\ ~last.ok /\ last.expires_in = 59
  /\ \E c \in CodeIds : codes[c].exists

\* C13: a refresh_tokens call passes its checks, and goes on to issue, only
\* if the presented token's signature verifies under the key of its kid, it
\* has not expired, it is not in the revocation index, its type is refresh
\* and its aud is the supplied client_id; otherwise the call changes neither
\* the handler's position nor the token rows nor the tokens handed out.
\* Every token for which a refresh has returned a pair is a refresh token.
C13_RefreshChecks ==
  /\ \A p \in Procs, t \in issued, cl \in TokenClients :
       ~( /\ get_public_key_by_id(t.kid) # NoPem
          /\ jwt_verify(t, get_public_key_by_id(t.kid))
          /\ now < t.payload.exp
          /\ ~is_token_revoked(sha256_hex(t))
          /\ t.payload.type = "refresh"
          /\ t.payload.aud = cl )
         => ~ENABLED ( /\ RefreshValidate(p, t, cl)
                      /\ \/ tpc'[p] # tpc[p]
                         \/ tokens' # tokens
                         \/ issued' # issued )
  /\ \A t \in refreshed : t.payload.type = "refresh"

\* C13 witness: a refresh has returned a pair, and an access token that
\* validates is in a caller's hands.
C13_Witness ==
  /\ \E t \in refreshed : t.payload.aud = "c1"
  /\ \E a \in issued :
       a.payload.type # "refresh" /\ ValidateWhy(a, now) = "ok"

\* C14: the refresh token row that a refresh_tokens call stores has
\* parent_token_id equal to the token id of the refresh token presented.
C14_RotationChain ==
  [][\A p \in Procs :
       (treq[p].op = "refresh" /\ tpc[p] # "idle" /\ tpc'[p] = "idle")
         => /\ Len(tokens') = Len(tokens) + 1
            /\ tokens'[Len(tokens')].token_type = "refresh"
            /\ tokens'[Len(tokens')].parent_token_id
                 = treq[p].presented.payload.token_id]_vars

\* C15: the access token that issue_access_token has just returned to its
\* handler, while it is unexpired and not revoked, is accepted by
\* validate_access_token, and the claims returned carry the user_id as sub,
\* the client_id as aud and a scope that splits back into the scope list.
C15_IssueThenValidate ==
  \A p \in Procs :
    (treq[p].access # NoToken
       /\ now < treq[p].access.payload.exp
       /\ ~is_token_revoked(sha256_hex(treq[p].access)))
      => /\ ValidateWhy(treq[p].access, now) = "ok"
         /\ treq[p].access.payload.sub = Str(treq[p].user_id)
         /\ treq[p].access.payload.aud = treq[p].client_id
         /\ Split(treq[p].access.payload.scope) = treq[p].scope

\* C16: a validate_token call answers valid only for a token whose header
\* has a kid that names a row of the key store and whose signature is that
\* of the row's private key over the token's header and payload.
C16_OnlySignedTokensValidate ==
  [][(last' # last /\ last'.op = "validate" /\ last'.valid)
       => /\ last'.token.kid # -1
          /\ last'.token.kid \in DOMAIN keys
          /\ last'.token = jwt_encode(last'.token.payload,
                                      keys[last'.token.kid].private_key,
                                      last'.token.kid)]_vars

\* C16 witness: a token whose kid names a stored key and whose signature is
\* not that key's has been answered invalid.
C16_Witness ==
  /\ last.op = "validate"
  /\ ~last.valid
  /\ last.token.kid \in DOMAIN keys
  /\ last.token.sig.pair # keys[last.token.kid].private_key.pair
  /\ last.token.payload.exp > now

\* C17: the operation that stores a fresh key pair while a key is active
\* leaves every key that was active inactive, stores the fresh pair under a
\* key id that was not in the store and as the only active key, and leaves
\* every stored public key, and so every token that validated, as it was.
C17_RotateKeepsOldKeys ==
  [][(npairs' # npairs /\ tpc' = tpc /\ ActiveKeyIds # {})
       => /\ \A k \in ActiveKeyIds : ~keys'[k].is_active
          /\ \E f \in (DOMAIN keys') \ (DOMAIN keys) :
               {k \in DOMAIN keys' : keys'[k].is_active} = {f}
          /\ \A k \in DOMAIN keys : keys'[k].public_key = keys[k].public_key
          /\ \A t \in issued :
               jwt_verify(t, keys[t.kid].public_key)
                 => jwt_verify(t, keys'[t.kid].public_key)]_vars

\* C18: a validate_token call during which the store was unreachable is
\* answered with a StoreUnavailable error, not with the answer given for an
\* invalid token.
C18_StoreFailureIsDistinct ==
  (last.op = "validate" /\ last.fault # "none")
    => /\ last.error = "StoreUnavailable"
       /\ \A t \in Presentable :
            ValidateWhy(t, now) # "ok"
              => [last EXCEPT !.fault = "none", !.token = t]
                   # ValidateTokenResponse(t, now, "none")

\* C19: every code in the code store was issued for a client that
\* get_oauth_client finds and that is active, and for a redirect URI that
\* is one of that client's redirect_uris.
C19_CodesOnlyForRegisteredRedirects ==
  \A c \in CodeIds :
    (codes[c].exists /\ codes[c].client_id # "None")
      => /\ get_oauth_client(codes[c].client_id) # NoClient
         /\ get_oauth_client(codes[c].client_id).is_active
         /\ codes[c].redirect_uri
              \in get_oauth_client(codes[c].client_id).redirect_uris

\* C20: the token_hash of every token row, and the key and token_hash of
\* every row of the revocations, is the SHA-256 hash of a token that was
\* signed, and is not a token string.
C20_OnlyHashesPersisted ==
  LET raw == issued \cup {treq[p].access : p \in Procs}
                    \cup {treq[p].presented : p \in Procs}
  IN  /\ \A i \in DOMAIN tokens :
           /\ tokens[i].token_hash \notin raw
           /\ \E t \in raw : tokens[i].token_hash = sha256_hex(t)
      /\ \A h \in DOMAIN revocations :
           /\ h \notin raw
           /\ revocations[h].token_hash \notin raw
           /\ \E t \in raw : /\ h = sha256_hex(t)
                             /\ revocations[h].token_hash = sha256_hex(t)

\* C20 witness: a refresh has revoked the token presented and stored the
\* rows of a new pair.
C20_Witness ==
  /\ refreshed # {}
  /\ DOMAIN revocations # {}
  /\ Len(tokens) >= 4

\* C21: every entry of the key set get_jwks returns has the fields kty, use,
\* kid, alg, n and e and no other, n and e being the encoded modulus and
\* public exponent of the row's public key; get_public_key_by_id returns the
\* public PEM of the row.
C21_OnlyPublicMaterial ==
  /\ \A i \in DOMAIN get_jwks.keys :
       /\ DOMAIN get_jwks.keys[i] = {"kty", "use", "kid", "alg", "n", "e"}
       /\ get_jwks.keys[i].n
            = int_to_base64url(
                public_numbers(keys[get_jwks.keys[i].kid].public_key).n)
       /\ get_jwks.keys[i].e = int_to_base64url(65537)
       /\ get_jwks.keys[i].n
            # int_to_base64url(
                private_numbers(keys[get_jwks.keys[i].kid].private_key).d)
  /\ \A k \in DOMAIN keys :
       /\ get_public_key_by_id(k) = keys[k].public_key
       /\ get_public_key_by_id(k).kind = "public"
       /\ get_public_key_by_id(k) # keys[k].private_key
  /\ last.op = "jwks" =>
       \A i \in DOMAIN last.keys :
         DOMAIN last.keys[i] = {"kty", "use", "kid", "alg", "n", "e"}

\* C21 witness: the key set has been published while a key was stored.
C21_Witness ==
  /\ last.op = "jwks"
  /\ Len(last.keys) >= 1
  /\ last.keys = get_jwks.keys

\* C22: the key set get_jwks returns has exactly one entry for each key row
\* with is_active = true and none for another, each with kty RSA, use sig,
\* alg RS256 and the row's key id as kid.
C22_OneJwkPerActiveKey ==
  /\ \A k \in DOMAIN keys :
       Cardinality({i \in DOMAIN get_jwks.keys : get_jwks.keys[i].kid = k})
         = IF keys[k].is_active THEN 1 ELSE 0
  /\ \A i \in DOMAIN get_jwks.keys :
       /\ get_jwks.keys[i].kid \in DOMAIN keys
       /\ get_jwks.keys[i].kty = "RSA"
       /\ get_jwks.keys[i].use = "sig"
       /\ get_jwks.keys[i].alg = "RS256"

\* C22 witness: the key set has been published with two keys active.
C22_Witness ==
  /\ last.op = "jwks"
  /\ Cardinality(ActiveKeyIds) = 2
  /\ Len(last.keys) = 2

\* A revoke_token call has revoked the token and no row has been stored
\* under its hash since.
RevokedBefore(token) ==
  /\ token \in revokedOk
  /\ \A i \in DOMAIN tokens :
       tokens[i].token_hash = sha256_hex(token) => tokens[i].revoked

C24_EndToEnd ==
  /\ (last.op = "redeem" /\ last.ok)
       => \E g \in FlowGrants :
            /\ g.client_id = last.client_id
            /\ g.redirect_uri = last.redirect_uri
            /\ last.user_id = g.user_id
            /\ last.scope = ToSet(Split(g.scope))
  /\ (last.op = "validate" /\ last.token.payload.type # "refresh"
        /\ now < last.token.payload.exp)
       => /\ last.valid
          /\ \E g \in FlowGrants :
               /\ g.client_id = last.client_id
               /\ last.user_id = g.user_id
               /\ ToSet(last.scope) = ToSet(Split(g.scope))

\* C24 witness: c1's code has been redeemed and the access token issued for
\* the answer has validated to user 42, client c1, scope profile email.
C24_Witness ==
  /\ last.op = "validate"
  /\ last.valid
  /\ last.token.payload.type # "refresh"
  /\ last.client_id = "c1"
  /\ last.user_id = 42
  /\ ToSet(last.scope) = {<< "profile" >>, << "email" >>}
  /\ \E c \in CodeIds : codes[c].used /\ codes[c].client_id = "c1"

\* C25: a refresh_tokens call returns a new pair only for a presented token
\* for which no refresh_tokens call has returned a pair before, whatever
\* the interleaving of the calls.
C25_AtMostOneRefreshPerToken ==
  [][\A p \in Procs :
       (treq[p].op = "refresh" /\ tpc[p] # "idle" /\ tpc'[p] = "idle")
         => treq[p].presented \notin refreshed]_vars

\* C26: when a refresh_tokens call returns its new pair, the revocation
\* index holds a row under the hash of the token it was presented; a call
\* whose revocation write failed returns no pair.
C26_RefreshedImpliesRevoked ==
  [][\A p \in Procs :
       (treq[p].op = "refresh" /\ tpc[p] # "idle" /\ tpc'[p] = "idle")
         => sha256_hex(treq[p].presented) \in DOMAIN revocations']_vars

\* C27: a validate_authorization_code call that returns None, for whichever
\* of its checks, leaves every row of the code store as it was; and when
\* the code it was given was stored, unused and unexpired, a call made next
\* with the client_id and redirect_uri of the row and the verifier of its
\* challenge passes every check.
C27_FailedRedeemChangesNothing ==
  [][(last'.op = "redeem" /\ ~last'.ok)
       => /\ codes' = codes
          /\ (last'.code \in CodeIds /\ codes[last'.code].exists
                /\ ~codes[last'.code].used
                /\ now <= codes[last'.code].expires_at
                /\ now < codes[last'.code].issued_at + codes[last'.code].ttl)
               => RedeemCheck(codes'[last'.code], codes'[last'.code].client_id,
                              codes'[last'.code].redirect_uri, << 97 >>, now')
                    = "ok"]_vars

\* C27 witness: a redeem with the wrong verifier has just been rejected and
\* the code is still unused, unexpired and redeemable with the right one.
C27_Witness ==
  /\ last.op = "redeem" /\ ~last.ok /\ last.why = "pkce"
  /\ codes[last.code].exists /\ ~codes[last.code].used
  /\ RedeemCheck(get_authorization_code(last.code), codes[last.code].client_id,
                 codes[last.code].redirect_uri, << 97 >>, now) = "ok"

\* C28: a refresh_tokens call that is rejected, because the token does not
\* validate, is not a refresh token or has another aud than the supplied
\* client_id, leaves the token rows and the revocation index as they were;
\* a refresh token that its own client can refresh is still refreshable by
\* that client after a call with another client_id was rejected.
C28_RejectedRefreshChangesNothing ==
  \A p \in Procs, t \in issued, cl \in TokenClients :
    RefreshWhy(t, cl, now) # "ok"
      => ~ENABLED ( /\ RefreshValidate(p, t, cl)
                    /\ \/ tokens' # tokens
                       \/ revocations' # revocations
                       \/ /\ RefreshWhy(t, t.payload.aud, now) = "ok"
                          /\ RefreshWhy(t, t.payload.aud, now)' # "ok" )

\* C28 witness: a refresh has been rejected for a revoked token, and a
\* refresh token is at hand that c2 is refused and its client c1 may use.
C28_Witness ==
  /\ seenRevoked # {}
  /\ \E t \in issued :
       /\ t.payload.type = "refresh"
       /\ RefreshWhy(t, "c2", now) = "client_id"
       /\ RefreshWhy(t, "c1", now) = "ok"
       /\ \E p \in Procs : ENABLED RefreshValidate(p, t, "c2")

\* C29: validate_token does not look at the token type: for a refresh token
\* whose signature verifies under the key of its kid, that has not expired
\* and is not in the revocation index, the answer is valid with the user of
\* its sub, the client of its aud and the list of its scope.
C29_RefreshTokenValidates ==
  [][(last'.op = "validate" /\ tpc' = tpc /\ now' = now
        /\ last'.token.payload.type = "refresh"
        /\ get_public_key_by_id(last'.token.kid) # NoPem
        /\ jwt_verify(last'.token, get_public_key_by_id(last'.token.kid))
        /\ now < last'.token.payload.exp
        /\ ~is_token_revoked(sha256_hex(last'.token)))
       => /\ last'.valid
          /\ Str(last'.user_id) = last'.token.payload.sub
          /\ last'.client_id = last'.token.payload.aud
          /\ Join(last'.scope) = last'.token.payload.scope]_vars

\* C29 witness: the validation of a refresh token handed out to c1 has just
\* answered valid, with user 42.
C29_Witness ==
  /\ last.op = "validate"
  /\ last.token \in issued
  /\ last.token.payload.type = "refresh"
  /\ last.valid
  /\ last.user_id = 42
  /\ last.client_id = "c1"

\* C30: no operation consults expires_at of a key row.  A row with
\* is_active = true whose expires_at (creation plus a year) has passed is
\* still resolved by get_public_key_by_id and still published by get_jwks;
\* and while such rows are the only active ones, issue_tokens signs its
\* access token with one of them and generates no key.
C30_ExpiredKeyStaysInUse ==
  /\ [](\A k \in DOMAIN keys :
          (keys[k].is_active /\ keys[k].expires_at <= now)
            => /\ get_public_key_by_id(k) = keys[k].public_key
               /\ \E i \in DOMAIN get_jwks.keys :
                    /\ get_jwks.keys[i].kid = k
                    /\ get_jwks.keys[i].n
                         = int_to_base64url(public_numbers(keys[k].public_key).n))
  /\ [][\A p \in Procs :
          (/\ tpc[p] = "idle" /\ tpc'[p] # "idle" /\ treq'[p].op = "issue"
           /\ DOMAIN keys # {}
           /\ \A k \in DOMAIN keys :
                keys[k].is_active /\ keys[k].expires_at <= now)
            => /\ tpc'[p] = "refresh_token"
               /\ treq'[p].access.kid \in DOMAIN keys
               /\ keys' = keys]_vars

\* C30 witness: a token signed, after the key's expires_at, with the one
\* active key validates, and the key set just published holds that key.
C30_Witness ==
  /\ last.op = "jwks"
  /\ \E k \in DOMAIN keys, t \in issued :
       /\ keys[k].is_active /\ keys[k].expires_at <= now
       /\ t.kid = k /\ keys[k].expires_at <= t.payload.iat
       /\ ValidateWhy(t, now) = "ok"
       /\ \E i \in DOMAIN last.keys : last.keys[i].kid = k

\* C8: a redeem of a code issued with a PKCE challenge succeeds only with a
\* verifier that validate_pkce accepts against the recorded challenge and
\* method; a code issued without a challenge that exists, is unused and
\* unexpired is redeemable with no verifier by the recorded client and
\* redirect URI.
C8_PkceMandatoryIffRecorded ==
  /\ (last.op = "redeem" /\ last.ok /\ codes[last.code].code_challenge # None)
       => /\ last.code_verifier # None
          /\ validate_pkce(last.code_verifier,
                           codes[last.code].code_challenge,
                           codes[last.code].code_challenge_method)
  /\ \A c \in CodeIds, p \in Procs :
       ( /\ cpc[p] = "idle"
         /\ codes[c].exists /\ ~codes[c].used
         /\ now < codes[c].expires_at
         /\ codes[c].code_challenge = None )
       => ENABLED ( /\ RedeemRead(p, c, codes[c].client_id,
                                  codes[c].redirect_uri, None)
                    /\ cpc'[p] = "mark" )

\* C8 witness: a code issued with an S256 challenge has just been redeemed.
C8_Witness ==
  /\ last.op = "redeem" /\ last.ok
  /\ codes[last.code].code_challenge # None
  /\ codes[last.code].code_challenge_method = "S256"

\* C9: a successful redeem presented exactly the client_id and the
\* redirect_uri recorded when the code was issued.
C9_ClientAndRedirectMatch ==
  (last.op = "redeem" /\ last.ok)
    => /\ last.client_id = codes[last.code].client_id
       /\ last.redirect_uri = codes[last.code].redirect_uri

\* C9 witness: a redeem of an existing, unused, unexpired code has just been
\* rejected because the redirect_uri differs from the recorded one.
C9_Witness ==
  /\ last.op = "redeem" /\ ~last.ok /\ last.why = "redirect_uri"
  /\ codes[last.code].exists /\ ~codes[last.code].used
  /\ now < codes[last.code].expires_at

\* The unpadded base64url form (RFC 7636, appendix A) of a byte string, from
\* its bits: the bits are cut into groups of six, the last group filled with
\* zero bits, and each group is one character of the URL-safe alphabet.
BitAt(bytes, i) ==
  IF i > 8 * Len(bytes) THEN 0
  ELSE (bytes[((i - 1) \div 8) + 1] \div Pow(2, 7 - ((i - 1) % 8))) % 2
SextetAt(bytes, j) ==
  32 * BitAt(bytes, 6 * j - 5) + 16 * BitAt(bytes, 6 * j - 4)
    + 8 * BitAt(bytes, 6 * j - 3) + 4 * BitAt(bytes, 6 * j - 2)
    + 2 * BitAt(bytes, 6 * j - 1) + BitAt(bytes, 6 * j)
UnpaddedBase64Url(bytes) ==
  [j \in 1..((8 * Len(bytes) + 5) \div 6) |-> UrlSafeChar(SextetAt(bytes, j))]

\* C10: validate_pkce with S256 is true exactly when the challenge is the
\* unpadded base64url encoding of SHA-256(verifier), and false for the
\* challenge of any verifier one bit away; with plain it is true exactly when
\* verifier and challenge are equal; with any other method it is false.
C10_PkceValidate ==
  pk.applied =>
    /\ pk.method = "S256" =>
         /\ pk.result = (pk.challenge = UnpaddedBase64Url(Sha256(pk.verifier)))
         /\ \A w \in BitFlips(pk.verifier) :
              pk.challenge = UnpaddedBase64Url(Sha256(w)) => ~pk.result
    /\ pk.method = "plain" => pk.result = (pk.verifier = pk.challenge)
    /\ pk.method \notin {"S256", "plain"} => ~pk.result

\* C10 witness: validate_pkce has accepted an S256 challenge.
C10_Witness == pk.applied /\ pk.method = "S256" /\ pk.result

====
